---- MODULE Spec2Model ----
(***************************************************************************)
(* A model of aiomonitor (src/aiomonitor/aiomonitor.py): the Monitor, its   *)
(* listener thread (server / interactive_loop and the command handlers),    *)
(* the janus hand-off queue and the drain routine monitor_task that runs    *)
(* on the event loop.                                                       *)
(*                                                                          *)
(* Three threads of control interleave: the thread that constructs and      *)
(* closes the Monitor, the listener thread, and the event loop.  The event  *)
(* loop runs one callback at a time: while the drain routine is in the      *)
(* middle of a step (dpc = "step") no other loop callback runs.             *)
(***************************************************************************)
EXTENDS Integers, Sequences, FiniteSets, TLC

(***************************************************************************)
(* Bounds of the model.                                                     *)
(***************************************************************************)
\* user tasks 1..NumTasks may exist on the loop; the drain routine is task 0
NumTasks == 2
\* successful sync_q.put calls over the whole run
MaxReq == 2
\* calls of Monitor.close()
MaxClose == 2

DrainId == 0
UserTasks == 1..NumTasks
AllTasks == {DrainId} \cup UserTasks
\* an identifier no task ever has
AbsentId == NumTasks + 1
NoTask == -1

(***************************************************************************)
(* Text.  A line is a sequence of one-character strings, as readline()      *)
(* returns it: with its trailing newline, or empty at end of input.         *)
(***************************************************************************)
Ws == {" ", "\t", "\n", "\r"}

DigitChars == <<"0", "1", "2", "3", "4", "5", "6", "7", "8", "9">>

IsDigit(c) == \E i \in 1..Len(DigitChars) : DigitChars[i] = c

DigitVal(c) == (CHOOSE i \in 1..Len(DigitChars) : DigitChars[i] = c) - 1

\* str.startswith
StartsWith(s, p) == Len(s) >= Len(p) /\ SubSeq(s, 1, Len(p)) = p

\* str.split() with no argument: the maximal runs of non-whitespace
RECURSIVE SplitFrom(_, _, _)
SplitFrom(s, i, cur) ==
    IF i > Len(s)
    THEN IF cur = <<>> THEN <<>> ELSE <<cur>>
    ELSE IF s[i] \in Ws
         THEN IF cur = <<>>
              THEN SplitFrom(s, i + 1, <<>>)
              ELSE <<cur>> \o SplitFrom(s, i + 1, <<>>)
         ELSE SplitFrom(s, i + 1, Append(cur, s[i]))

Split(s) == SplitFrom(s, 1, <<>>)

\* int(token): an optional sign and decimal digits; anything else raises ValueError
RECURSIVE DigitsValue(_, _)
DigitsValue(tok, acc) ==
    IF tok = <<>> THEN acc
    ELSE DigitsValue(Tail(tok), acc * 10 + DigitVal(Head(tok)))

AllDigits(tok) == tok # <<>> /\ \A i \in 1..Len(tok) : IsDigit(tok[i])

IntOk(tok) ==
    \/ AllDigits(tok)
    \/ /\ tok # <<>>
       /\ Head(tok) \in {"-", "+"}
       /\ AllDigits(Tail(tok))

IntVal(tok) ==
    IF AllDigits(tok) THEN DigitsValue(tok, 0)
    ELSE IF Head(tok) = "-" THEN 0 - DigitsValue(Tail(tok), 0)
    ELSE DigitsValue(Tail(tok), 0)

\* the decimal text of a small natural number (what the operator types)
RECURSIVE Decimal(_)
Decimal(n) ==
    IF n < 10 THEN <<DigitChars[n + 1]>>
    ELSE Append(Decimal(n \div 10), DigitChars[(n % 10) + 1])

Eof == <<>>
Nl == <<"\n">>
W_q == <<"q">>
W_p == <<"p">>
W_w == <<"w">>
W_h == <<"h">>
W_ps == <<"p", "s">>
W_quit == <<"q", "u", "i", "t">>
W_exit == <<"e", "x", "i", "t">>
W_help == <<"h", "e", "l", "p">>
W_where == <<"w", "h", "e", "r", "e">>
W_cancel == <<"c", "a", "n", "c", "e", "l">>
W_signal == <<"s", "i", "g", "n", "a", "l">>

CommandNames == {W_ps, W_where, W_cancel, W_signal, W_help, W_quit, W_exit}

\* Dispatch as a parser by first token would do it: the command whose name is
\* the first whitespace-separated token, Quit for a line without tokens
DispatchByFirstToken(resp) ==
    LET toks == Split(resp) IN
    IF toks = <<>> THEN "exit"
    ELSE IF toks[1] \in {W_quit, W_exit} THEN "exit"
    ELSE IF toks[1] = W_ps THEN "ps"
    ELSE IF toks[1] = W_cancel THEN "cancel"
    ELSE IF toks[1] = W_signal THEN "signal"
    ELSE IF toks[1] = W_where THEN "where"
    ELSE IF toks[1] = W_help THEN "help"
    ELSE "unknown"

(***************************************************************************)
(* The branch interactive_loop takes for a line (lines 145-171): a chain of *)
(* prefix tests on the raw line, first match wins.                          *)
(***************************************************************************)
Dispatch(resp) ==
    IF resp = <<>> \/ StartsWith(resp, W_q) THEN "exit"
    ELSE IF StartsWith(resp, W_p) THEN "ps"
    ELSE IF StartsWith(resp, W_exit) THEN "exit"
    ELSE IF StartsWith(resp, W_cancel) THEN "cancel"
    ELSE IF StartsWith(resp, W_signal) THEN "signal"
    ELSE IF StartsWith(resp, W_w) THEN "where"
    ELSE IF StartsWith(resp, W_h) THEN "help"
    ELSE "unknown"

\* `_, x = resp.split()` succeeds exactly when the line has two tokens
TwoTokens(resp) == Len(Split(resp)) = 2

\* the argument of a cancel / where line is usable: two tokens, the second an int
ArgOk(resp) == TwoTokens(resp) /\ IntOk(Split(resp)[2])

ArgId(resp) == IntVal(Split(resp)[2])


\* hasattr(signal, name): names of signals, and other attributes of the module
SignalNames == {<<"S", "I", "G", "I", "N", "T">>}
OtherSignalAttrs == {W_signal}

ReqLine(word, id) == word \o <<" ">> \o Decimal(id) \o Nl

\* the lines an operator sends in the concurrent model
SessionLines ==
    {Eof, Nl, W_ps \o Nl, W_quit \o Nl, W_exit \o Nl, W_help \o Nl,
     <<"f", "o", "o", "\n">>, W_cancel \o Nl, W_cancel \o <<" ", "x", "\n">>,
     W_signal \o <<" ", "X", "\n">>}
    \cup {W_signal \o <<" ">> \o n \o Nl : n \in SignalNames \cup OtherSignalAttrs}
    \cup {ReqLine(W_cancel, i) : i \in 0..AbsentId}
    \cup {ReqLine(W_where, i) : i \in 0..AbsentId}

\* the lines an operator sends where only progress is examined: the ones that
\* end a session or reach the queue
RequestLines == {Eof} \cup {ReqLine(W_cancel, i) : i \in 0..AbsentId}

(***************************************************************************)
(* State.                                                                   *)
(***************************************************************************)
VARIABLES
    ctor,           \* next line of Monitor.__init__ to run: "c81", "c82", "c83", "done"
    lpc,            \* listener thread: "none", "check", "accept", "top", "read", "exited", "crashed"
    conn,           \* the accepted client connection: "none", "ok", "broken"
    closing,        \* self._closing
    qExists,        \* self.monitor_queue has been assigned
    qClosed,        \* the janus queue has been closed
    queue,          \* the janus queue's items (tasks, by identifier)
    futState,       \* self._fut: "none", "pending", "cancelled", "finished"
    cancelPending,  \* a cancel of the drain task is scheduled on the loop
    dpc,            \* monitor_task: "none", "ready", "step", "get_wait", "await", "cancelled", "error"
    awaiting,       \* the task monitor_task awaits at line 105
    tstate,         \* user tasks: "absent", "pending", "cancelling", "cancelled", "ok", "error"
    cancelCount,    \* effective cancellations (cancel() returned True) per task
    submitted,      \* history: every task put on the queue, in order
    ntaken,         \* history: how many requests monitor_task has taken
    cpc,            \* the thread in close(): "idle", "c94", "c95", "c96"
    closeCount,     \* completed calls of close()
    pendingAtClose, \* history: the first close() found a request on the queue
    resp,           \* the line the session handled last and what it wrote back
    dline,          \* dispatch check: the line under test
    dbranch,        \* dispatch check: the branch taken for it
    wchain,         \* stack walk: the chain of objects that starts at task._coro
    wpos,           \* stack walk: `coro`, as a position in the chain (0: None)
    wframes,        \* stack walk: `frames`
    wpc,            \* stack walk: "idle", "loop", "format", "done"
    wout            \* stack walk: what _format_stack returned

vars == <<ctor, lpc, conn, closing, qExists, qClosed, queue, futState,
          cancelPending, dpc, awaiting, tstate, cancelCount, submitted, ntaken,
          cpc, closeCount, pendingAtClose, resp, dline, dbranch,
          wchain, wpos, wframes, wpc, wout>>

listenerVars == <<lpc, conn, resp>>
queueVars == <<queue, submitted>>
drainVars == <<dpc, awaiting, ntaken>>
closeVars == <<cpc, closeCount, pendingAtClose>>
dispatchVars == <<dline, dbranch>>
walkVars == <<wchain, wpos, wframes, wpc, wout>>

NoResp == [line |-> Eof, out |-> "none", rows |-> <<>>]
Wrote(line, out) == [line |-> line, out |-> out, rows |-> <<>>]

Terminal == {"cancelled", "ok", "error"}

\* task._state as the scheduler holds it; the drain routine is itself a task
TaskState(t) ==
    IF t = DrainId
    THEN CASE dpc = "none" -> "absent"
           [] dpc = "cancelled" -> "cancelled"
           [] dpc = "error" -> "error"
           [] OTHER -> "pending"
    ELSE tstate[t]

TaskDone(t) == TaskState(t) \in Terminal

\* asyncio.Task.all_tasks(loop=loop): every task of the loop, finished ones too
all_tasks == {t \in AllTasks : TaskState(t) # "absent"}

\* task_by_id as it would be if the loop variable were returned after the
\* loop: the task iterated last when none matches
task_by_id_last(taskid) ==
    IF taskid \in all_tasks THEN taskid
    ELSE IF all_tasks = {} THEN NoTask
    ELSE CHOOSE t \in all_tasks : \A u \in all_tasks : u <= t

\* task_by_id (lines 63-66): the task with that id, or None
task_by_id(taskid) == IF taskid \in all_tasks THEN taskid ELSE NoTask

\* sorted(all_tasks, key=id), one row per task (lines 194-205)
RECURSIVE SortedIds(_)
SortedIds(S) ==
    IF S = {} THEN <<>>
    ELSE LET m == CHOOSE x \in S : \A y \in S : x <= y
         IN <<m>> \o SortedIds(S \ {m})

\* the rows without the sort in the right direction: descending identifiers
RECURSIVE DescendingIds(_)
DescendingIds(S) ==
    IF S = {} THEN <<>>
    ELSE LET m == CHOOSE x \in S : \A y \in S : x >= y
         IN <<m>> \o DescendingIds(S \ {m})

PsRowsDescending == DescendingIds(all_tasks)

PsRows == SortedIds(all_tasks)

ListenerGone == lpc \in {"exited", "crashed"}
DrainGone == dpc \in {"cancelled", "error"}
\* the event loop is free to run another callback
LoopIdle == dpc # "step"

MonitorInit ==
    /\ ctor = "c81"
    /\ lpc = "none"
    /\ conn = "none"
    /\ closing = FALSE
    /\ qExists = FALSE
    /\ qClosed = FALSE
    /\ queue = <<>>
    /\ futState = "none"
    /\ cancelPending = FALSE
    /\ dpc = "none"
    /\ awaiting = NoTask
    /\ tstate = [t \in UserTasks |-> "absent"]
    /\ cancelCount = [t \in AllTasks |-> 0]
    /\ submitted = <<>>
    /\ ntaken = 0
    /\ cpc = "idle"
    /\ closeCount = 0
    /\ pendingAtClose = FALSE
    /\ resp = NoResp
    /\ dbranch = "none"

\* no stack walk in progress
WalkIdle ==
    /\ wchain = <<>>
    /\ wpos = 0
    /\ wframes = <<>>
    /\ wpc = "idle"
    /\ wout = "none"

Init ==
    /\ MonitorInit
    /\ dline = Eof
    /\ WalkIdle

(***************************************************************************)
(* Monitor.__init__ (lines 78-84): the listener thread is started before    *)
(* the queue is created and before the drain routine is scheduled.          *)
(***************************************************************************)
Ctor81 ==
    /\ ctor = "c81"
    /\ ctor' = "c82"
    /\ lpc' = "check"
    /\ UNCHANGED <<conn, resp, closing, qExists, qClosed, queueVars, futState,
                   cancelPending, drainVars, tstate, cancelCount, closeVars,
                   dispatchVars, walkVars>>

Ctor82 ==
    /\ ctor = "c82"
    /\ ctor' = "c83"
    /\ qExists' = TRUE
    /\ UNCHANGED <<listenerVars, closing, qClosed, queueVars, futState,
                   cancelPending, drainVars, tstate, cancelCount, closeVars,
                   dispatchVars, walkVars>>

Ctor83 ==
    /\ ctor = "c83"
    /\ ctor' = "done"
    /\ futState' = "pending"
    /\ UNCHANGED <<listenerVars, closing, qExists, qClosed, queueVars,
                   cancelPending, drainVars, tstate, cancelCount, closeVars,
                   dispatchVars, walkVars>>

(***************************************************************************)
(* Monitor.close (lines 92-96), one step per line.                          *)
(***************************************************************************)
Close93 ==
    /\ ctor = "done"
    /\ cpc = "idle"
    /\ closeCount < MaxClose
    /\ qClosed' = TRUE
    /\ cpc' = "c94"
    /\ pendingAtClose' = (pendingAtClose \/ (closeCount = 0 /\ queue # <<>>))
    /\ UNCHANGED <<ctor, listenerVars, closing, qExists, queueVars, futState,
                   cancelPending, drainVars, tstate, cancelCount, closeCount,
                   dispatchVars, walkVars>>

\* Future.cancel() as it would be if it scheduled the cancellation whatever
\* the future's state
Close94Always ==
    /\ cpc = "c94"
    /\ cpc' = "c95"
    /\ futState' = "cancelled"
    /\ cancelPending' = TRUE
    /\ UNCHANGED <<ctor, listenerVars, closing, qExists, qClosed, queueVars,
                   drainVars, tstate, cancelCount, closeCount, pendingAtClose,
                   dispatchVars, walkVars>>

\* Future.cancel(): cancels a pending future and schedules task.cancel() on the
\* loop; a future that is already cancelled or finished is left as it is
Close94 ==
    /\ cpc = "c94"
    /\ cpc' = "c95"
    /\ IF futState = "pending"
       THEN futState' = "cancelled" /\ cancelPending' = TRUE
       ELSE UNCHANGED <<futState, cancelPending>>
    /\ UNCHANGED <<ctor, listenerVars, closing, qExists, qClosed, queueVars,
                   drainVars, tstate, cancelCount, closeCount, pendingAtClose,
                   dispatchVars, walkVars>>

\* close() as it would be without line 95: the flag is never set
Close95NoSet ==
    /\ cpc = "c95"
    /\ cpc' = "c96"
    /\ UNCHANGED <<ctor, listenerVars, closing, qExists, qClosed, queueVars,
                   futState, cancelPending, drainVars, tstate, cancelCount,
                   closeCount, pendingAtClose, dispatchVars, walkVars>>

\* close() as it would be if line 95 flipped the flag instead of setting it
Close95Toggle ==
    /\ cpc = "c95"
    /\ cpc' = "c96"
    /\ closing' = ~closing
    /\ UNCHANGED <<ctor, listenerVars, qExists, qClosed, queueVars, futState,
                   cancelPending, drainVars, tstate, cancelCount, closeCount,
                   pendingAtClose, dispatchVars, walkVars>>

\* line 95: self._closing.set()
Close95 ==
    /\ cpc = "c95"
    /\ cpc' = "c96"
    /\ closing' = TRUE
    /\ UNCHANGED <<ctor, listenerVars, qExists, qClosed, queueVars, futState,
                   cancelPending, drainVars, tstate, cancelCount, closeCount,
                   pendingAtClose, dispatchVars, walkVars>>

\* close() as it would be without the join: it returns at once
Close96NoJoin ==
    /\ cpc = "c96"
    /\ cpc' = "idle"
    /\ closeCount' = closeCount + 1
    /\ UNCHANGED <<ctor, listenerVars, closing, qExists, qClosed, queueVars,
                   futState, cancelPending, drainVars, tstate, cancelCount,
                   pendingAtClose, dispatchVars, walkVars>>

\* Thread.join(): returns once the listener thread has ended
Close96 ==
    /\ cpc = "c96"
    /\ ListenerGone
    /\ cpc' = "idle"
    /\ closeCount' = closeCount + 1
    /\ UNCHANGED <<ctor, listenerVars, closing, qExists, qClosed, queueVars,
                   futState, cancelPending, drainVars, tstate, cancelCount,
                   pendingAtClose, dispatchVars, walkVars>>


(***************************************************************************)
(* The listener thread: Monitor.server (lines 109-131).                     *)
(***************************************************************************)
nonListenerVars == <<ctor, closing, qExists, qClosed, queueVars, futState,
                     cancelPending, drainVars, tstate, cancelCount, closeVars,
                     dispatchVars, walkVars>>

\* line 123: while not self._closing.is_set()
ServerCheck ==
    /\ lpc = "check"
    /\ lpc' = IF closing THEN "exited" ELSE "accept"
    /\ resp' = NoResp
    /\ UNCHANGED <<conn, nonListenerVars>>

\* lines 125, 130-131: accept() times out after 0.5 s
AcceptTimeout ==
    /\ lpc = "accept"
    /\ lpc' = "check"
    /\ UNCHANGED <<conn, resp, nonListenerVars>>

\* lines 125-129 and 137-139: a client connects; the banner is buffered
AcceptClient ==
    /\ lpc = "accept"
    /\ lpc' = "top"
    /\ conn' = "ok"
    /\ UNCHANGED <<resp, nonListenerVars>>

\* the client resets the connection: every later flush and read raises OSError
ClientReset ==
    /\ conn = "ok"
    /\ conn' = "broken"
    /\ UNCHANGED <<lpc, resp, nonListenerVars>>

(***************************************************************************)
(* Monitor.interactive_loop (lines 133-173).  Writes go to the stream's     *)
(* buffer; flush() and readline() reach the socket and raise on a broken    *)
(* connection.  Lines 140-143 are outside the try block: what they raise    *)
(* leaves interactive_loop and server, which catches socket.timeout only.   *)
(***************************************************************************)
\* line 140 finds the flag set: interactive_loop returns, the client is closed
SessionClosing ==
    /\ lpc = "top"
    /\ closing
    /\ lpc' = "check"
    /\ conn' = "none"
    /\ resp' = NoResp
    /\ UNCHANGED nonListenerVars

\* the top of the loop as it would be with `while True:` at line 140
SessionPromptAlways ==
    /\ lpc = "top"
    /\ lpc' = IF conn = "ok" THEN "read" ELSE "crashed"
    /\ conn' = IF conn = "ok" THEN conn ELSE "none"
    /\ resp' = NoResp
    /\ UNCHANGED nonListenerVars

\* lines 140-142: the prompt is written and flushed
SessionPrompt ==
    /\ lpc = "top"
    /\ ~closing
    /\ lpc' = IF conn = "ok" THEN "read" ELSE "crashed"
    /\ conn' = IF conn = "ok" THEN conn ELSE "none"
    /\ resp' = NoResp
    /\ UNCHANGED nonListenerVars

\* line 143: readline() raises (connection reset, or bytes that are not UTF-8)
ReadFail ==
    /\ lpc = "read"
    /\ lpc' = "crashed"
    /\ conn' = "none"
    /\ resp' = NoResp
    /\ UNCHANGED nonListenerVars

\* the farewell as it would be if server() did not close the client
\* (no `with client:`): the connection stays open after the session
CmdExitKeepOpen(L) ==
    /\ lpc = "read"
    /\ conn = "ok"
    /\ \E line \in L :
        /\ Dispatch(line) = "exit"
        /\ resp' = Wrote(line, "farewell")
    /\ lpc' = "check"
    /\ UNCHANGED <<conn, nonListenerVars>>

\* lines 145-147, 152-154 and command_exit (236-238): the farewell is written
\* and flushed; a flush that raises is caught at line 172 and the loop goes on
CmdExit(L) ==
    /\ lpc = "read"
    /\ conn = "ok"
    /\ \E line \in L :
        /\ Dispatch(line) = "exit"
        /\ resp' = Wrote(line, "farewell")
    /\ lpc' = "check"
    /\ conn' = "none"
    /\ UNCHANGED nonListenerVars

\* the same on a connection the client reset while the read returned data
\* already received: flush raises, line 172 catches, the return is skipped
CmdExitBroken(L) ==
    /\ lpc = "read"
    /\ conn = "broken"
    /\ \E line \in L :
        /\ Dispatch(line) = "exit"
        /\ resp' = Wrote(line, "bad")
    /\ lpc' = "top"
    /\ UNCHANGED <<conn, nonListenerVars>>

\* lines 149-150 and command_ps (185-205)
CmdPs(L) ==
    /\ lpc = "read"
    /\ \E line \in L :
        /\ Dispatch(line) = "ps"
        /\ resp' = [line |-> line, out |-> "ps", rows |-> PsRows]
    /\ lpc' = "top"
    /\ UNCHANGED <<conn, nonListenerVars>>

\* the outcome as it would be if put() took no notice of a closed queue
CancelOutOpen(line) ==
    IF ~ArgOk(line) THEN "bad"
    ELSE IF task_by_id(ArgId(line)) = NoTask THEN "nothing"
    ELSE IF ~qExists THEN "cancelling_bad"
    ELSE "cancelling"

\* the outcome of lines 156-158 and command_cancel (228-234) for a line
CancelOut(line) ==
    IF ~ArgOk(line) THEN "bad"
    ELSE IF task_by_id(ArgId(line)) = NoTask THEN "nothing"
    ELSE IF ~qExists \/ qClosed THEN "cancelling_bad"
    ELSE "cancelling"

\* command_cancel as it would be if it called task.cancel() itself, on the
\* listener thread, instead of handing the task to the queue
CmdCancelDirect(L) ==
    /\ lpc = "read"
    /\ \E line \in L :
        /\ Dispatch(line) = "cancel"
        /\ resp' = Wrote(line, CancelOut(line))
        /\ IF CancelOut(line) = "cancelling"
              /\ task_by_id(ArgId(line)) \in UserTasks
              /\ ~TaskDone(task_by_id(ArgId(line)))
           THEN /\ tstate' = [tstate EXCEPT ![ArgId(line)] = "cancelling"]
                /\ cancelCount' = [cancelCount EXCEPT ![ArgId(line)] = @ + 1]
           ELSE UNCHANGED <<tstate, cancelCount>>
    /\ lpc' = "top"
    /\ UNCHANGED <<conn, ctor, closing, qExists, qClosed, queueVars, futState,
                   cancelPending, drainVars, closeVars, dispatchVars, walkVars>>

CmdCancel(L) ==
    /\ lpc = "read"
    /\ \E line \in L :
        /\ Dispatch(line) = "cancel"
        /\ resp' = Wrote(line, CancelOut(line))
        /\ IF CancelOut(line) = "cancelling"
           THEN /\ Len(submitted) < MaxReq
                /\ queue' = Append(queue, task_by_id(ArgId(line)))
                /\ submitted' = Append(submitted, task_by_id(ArgId(line)))
           ELSE UNCHANGED queueVars
    /\ lpc' = "top"
    /\ UNCHANGED <<conn, ctor, closing, qExists, qClosed, futState,
                   cancelPending, drainVars, tstate, cancelCount, closeVars,
                   dispatchVars, walkVars>>

\* the outcome of lines 160-162 and command_signal (222-226)
SignalOut(line) ==
    IF ~TwoTokens(line) THEN "bad"
    ELSE IF Split(line)[2] \in SignalNames THEN "signal_sent"
    ELSE IF Split(line)[2] \in OtherSignalAttrs THEN "bad"
    ELSE "unknown_signal"

CmdSignal(L) ==
    /\ lpc = "read"
    /\ \E line \in L :
        /\ Dispatch(line) = "signal"
        /\ resp' = Wrote(line, SignalOut(line))
    /\ lpc' = "top"
    /\ UNCHANGED <<conn, nonListenerVars>>

\* the outcome of lines 164-166 and command_where (207-220)
WhereOut(line) ==
    IF ~ArgOk(line) THEN "bad"
    ELSE IF task_by_id(ArgId(line)) = NoTask THEN "no_task"
    ELSE "where"

CmdWhere(L) ==
    /\ lpc = "read"
    /\ \E line \in L :
        /\ Dispatch(line) = "where"
        /\ resp' = Wrote(line, WhereOut(line))
    /\ lpc' = "top"
    /\ UNCHANGED <<conn, nonListenerVars>>

\* lines 168-169 and command_help (175-183)
CmdHelp(L) ==
    /\ lpc = "read"
    /\ \E line \in L :
        /\ Dispatch(line) = "help"
        /\ resp' = Wrote(line, "help")
    /\ lpc' = "top"
    /\ UNCHANGED <<conn, nonListenerVars>>

\* lines 170-171
CmdUnknown(L) ==
    /\ lpc = "read"
    /\ \E line \in L :
        /\ Dispatch(line) = "unknown"
        /\ resp' = Wrote(line, "unknown")
    /\ lpc' = "top"
    /\ UNCHANGED <<conn, nonListenerVars>>

ReadLine ==
    \/ ReadFail
    \/ CmdExit(SessionLines) \/ CmdExitBroken(SessionLines)
    \/ CmdPs(SessionLines) \/ CmdCancel(SessionLines)
    \/ CmdSignal(SessionLines) \/ CmdWhere(SessionLines)
    \/ CmdHelp(SessionLines) \/ CmdUnknown(SessionLines)

\* the same with the operator's lines drawn from RequestLines
ReadRequestLine ==
    \/ ReadFail
    \/ CmdExit(RequestLines) \/ CmdExitBroken(RequestLines)
    \/ CmdCancel(RequestLines)


(***************************************************************************)
(* The event loop: the scheduler's tasks.                                   *)
(***************************************************************************)
\* the application creates a task
CreateTask(t) ==
    /\ LoopIdle
    /\ tstate[t] = "absent"
    /\ tstate' = [tstate EXCEPT ![t] = "pending"]
    /\ UNCHANGED <<ctor, listenerVars, closing, qExists, qClosed, queueVars,
                   futState, cancelPending, drainVars, cancelCount, closeVars,
                   dispatchVars, walkVars>>

\* a task runs to its end on its own
TaskFinish(t) ==
    /\ LoopIdle
    /\ tstate[t] = "pending"
    /\ \E out \in {"ok", "error"} : tstate' = [tstate EXCEPT ![t] = out]
    /\ UNCHANGED <<ctor, listenerVars, closing, qExists, qClosed, queueVars,
                   futState, cancelPending, drainVars, cancelCount, closeVars,
                   dispatchVars, walkVars>>

\* a task whose cancellation was requested unwinds: it ends cancelled, or it
\* catches CancelledError and returns, or it raises something else
TaskUnwind(t) ==
    /\ LoopIdle
    /\ tstate[t] = "cancelling"
    /\ \E out \in Terminal : tstate' = [tstate EXCEPT ![t] = out]
    /\ UNCHANGED <<ctor, listenerVars, closing, qExists, qClosed, queueVars,
                   futState, cancelPending, drainVars, cancelCount, closeVars,
                   dispatchVars, walkVars>>

(***************************************************************************)
(* The drain routine: Monitor.monitor_task (lines 98-107), scheduled by     *)
(* run_coroutine_threadsafe (lines 83-84).                                  *)
(***************************************************************************)
\* the task ended: a pending self._fut takes its outcome
FutAfterEnd == IF futState = "pending" THEN "finished" ELSE futState

\* the loop runs the callback of run_coroutine_threadsafe: the task now exists
DrainCreate ==
    /\ dpc = "none"
    /\ futState # "none"
    /\ dpc' = "ready"
    /\ UNCHANGED <<ctor, listenerVars, closing, qExists, qClosed, queueVars,
                   futState, cancelPending, awaiting, ntaken, tstate,
                   cancelCount, closeVars, dispatchVars, walkVars>>

\* line 101 on a closed queue: get() raises RuntimeError, the routine ends
DrainGetClosed ==
    /\ dpc \in {"ready", "step"}
    /\ qClosed
    /\ dpc' = "error"
    /\ futState' = FutAfterEnd
    /\ UNCHANGED <<ctor, listenerVars, closing, qExists, qClosed, queueVars,
                   cancelPending, awaiting, ntaken, tstate, cancelCount,
                   closeVars, dispatchVars, walkVars>>

\* line 101 on an empty queue: the routine suspends inside get()
DrainGetEmpty ==
    /\ dpc \in {"ready", "step"}
    /\ ~qClosed
    /\ queue = <<>>
    /\ dpc' = "get_wait"
    /\ UNCHANGED <<ctor, listenerVars, closing, qExists, qClosed, queueVars,
                   futState, cancelPending, awaiting, ntaken, tstate,
                   cancelCount, closeVars, dispatchVars, walkVars>>

\* woken inside get() after the queue was closed: the item is there, but
\* task_done() at line 102 raises RuntimeError on the closed queue
DrainWakeClosed ==
    /\ dpc = "get_wait"
    /\ qClosed
    /\ queue # <<>>
    /\ dpc' = "error"
    /\ futState' = FutAfterEnd
    /\ UNCHANGED <<ctor, listenerVars, closing, qExists, qClosed, queueVars,
                   cancelPending, awaiting, ntaken, tstate, cancelCount,
                   closeVars, dispatchVars, walkVars>>

\* the request get() hands out: the oldest one
NextRequest == Head(queue)

\* a request can be taken: get() is being called, or the routine waits in it
CanTake ==
    /\ dpc \in {"ready", "step", "get_wait"}
    /\ ~qClosed
    /\ queue # <<>>

\* lines 101-107 for a user task.  cancel() does nothing to a task that is
\* done, and `await task` then returns or raises at once: CancelledError is
\* caught, any other exception ends the routine.  Otherwise the cancellation
\* is requested and the routine suspends until the task is done.
DrainTakeUser ==
    /\ CanTake
    /\ NextRequest # DrainId
    /\ LET t == NextRequest IN
        /\ queue' = Tail(queue)
        /\ ntaken' = ntaken + 1
        /\ IF tstate[t] \in Terminal
           THEN /\ dpc' = IF tstate[t] = "error" THEN "error" ELSE "step"
                /\ futState' = IF tstate[t] = "error" THEN FutAfterEnd ELSE futState
                /\ UNCHANGED <<awaiting, tstate, cancelCount>>
           ELSE /\ dpc' = "await"
                /\ awaiting' = t
                /\ tstate' = [tstate EXCEPT ![t] = "cancelling"]
                /\ cancelCount' = [cancelCount EXCEPT ![t] = @ + 1]
                /\ UNCHANGED futState
    /\ UNCHANGED <<ctor, listenerVars, closing, qExists, qClosed, submitted,
                   cancelPending, closeVars, dispatchVars, walkVars>>

\* lines 101-107 when the request is the drain routine's own task: cancel()
\* sets its must-cancel flag, `await task` on itself is answered by the loop
\* with an exception at the next step, which the flag turns into
\* CancelledError; line 106 catches it and the routine goes on
DrainTakeSelf ==
    /\ CanTake
    /\ NextRequest = DrainId
    /\ queue' = Tail(queue)
    /\ ntaken' = ntaken + 1
    /\ cancelCount' = [cancelCount EXCEPT ![DrainId] = @ + 1]
    /\ dpc' = "step"
    /\ UNCHANGED <<ctor, listenerVars, closing, qExists, qClosed, submitted,
                   futState, cancelPending, awaiting, tstate, closeVars,
                   dispatchVars, walkVars>>

\* lines 105-107: the awaited task is done and the routine is resumed
DrainWake ==
    /\ dpc = "await"
    /\ TaskDone(awaiting)
    /\ dpc' = IF tstate[awaiting] = "error" THEN "error" ELSE "step"
    /\ futState' = IF tstate[awaiting] = "error" THEN FutAfterEnd ELSE futState
    /\ awaiting' = NoTask
    /\ UNCHANGED <<ctor, listenerVars, closing, qExists, qClosed, queueVars,
                   cancelPending, ntaken, tstate, cancelCount, closeVars,
                   dispatchVars, walkVars>>

\* the loop runs the task.cancel() that self._fut.cancel() scheduled.  A
\* routine that has not started or waits in get() ends cancelled.  A routine
\* that awaits a task passes the cancellation on to that task (Task.cancel
\* cancels what the task waits for) and stays suspended until it is done.
DeliverCancel ==
    /\ cancelPending
    /\ dpc \notin {"none", "step"}
    /\ cancelPending' = FALSE
    /\ dpc' = IF dpc \in {"ready", "get_wait"} THEN "cancelled" ELSE dpc
    /\ cancelCount' = IF dpc = "await" /\ ~TaskDone(awaiting)
                      THEN [cancelCount EXCEPT ![awaiting] = @ + 1]
                      ELSE cancelCount
    /\ UNCHANGED <<ctor, listenerVars, closing, qExists, qClosed, queueVars,
                   futState, awaiting, ntaken, tstate, closeVars, dispatchVars, walkVars>>

(***************************************************************************)
(* The specification.                                                       *)
(***************************************************************************)
Construct == Ctor81 \/ Ctor82 \/ Ctor83
Close == Close93 \/ Close94 \/ Close95 \/ Close96
Accept == AcceptTimeout \/ AcceptClient
SessionTop == SessionClosing \/ SessionPrompt
Listener == ServerCheck \/ Accept \/ SessionTop \/ ReadLine
DrainStep ==
    \/ DrainGetClosed \/ DrainGetEmpty \/ DrainWakeClosed
    \/ DrainTakeUser \/ DrainTakeSelf \/ DrainWake
Tasks == \E t \in UserTasks : CreateTask(t) \/ TaskFinish(t) \/ TaskUnwind(t)
Unwind == \E t \in UserTasks : TaskUnwind(t)

Next ==
    \/ Construct
    \/ Close
    \/ Listener
    \/ ClientReset
    \/ DrainCreate
    \/ DrainStep
    \/ DeliverCancel
    \/ Tasks

Spec == Init /\ [][Next]_vars

(***************************************************************************)
(* Progress.  The threads and the loop keep running: every step of the      *)
(* constructor, of close(), of the listener and of the drain routine is     *)
(* taken when it stays possible; a pending read returns (the operator sends *)
(* a line or disconnects); a task whose cancellation was requested unwinds. *)
(* Nothing obliges the application to create or finish tasks, the operator  *)
(* to reset the connection, or anyone to call close().                      *)
(***************************************************************************)
FairListener == ServerCheck \/ Accept \/ SessionTop \/ ReadRequestLine

FairNext ==
    \/ Construct
    \/ Close
    \/ FairListener
    \/ ClientReset
    \/ DrainCreate
    \/ DrainStep
    \/ DeliverCancel
    \/ Tasks

Fairness ==
    /\ WF_vars(Construct)
    /\ WF_vars(Close94 \/ Close95 \/ Close96)
    /\ WF_vars(FairListener)
    /\ WF_vars(DrainCreate \/ DrainStep \/ DeliverCancel)
    /\ WF_vars(Unwind)

FairSpec == Init /\ [][FairNext]_vars /\ Fairness


(***************************************************************************)
(* Claims.                                                                  *)
(***************************************************************************)
Requested(t) == \E i \in 1..Len(queue) : queue[i] = t

\* C1 as claimed: once a close() that found a request on the queue has
\* returned, the listener thread and the drain routine have both ended.
C1_Claim ==
    (closeCount >= 1 /\ pendingAtClose) => (ListenerGone /\ DrainGone)

\* C1 amended: close() returns (a pending read of an open session returning);
\* when it has returned the listener thread has ended, the queue is closed,
\* the flag is set and the drain routine's future is cancelled or finished;
\* the drain routine itself ends later, when the loop has delivered the
\* cancellation and the task it awaits has unwound.
C1_Amended ==
    /\ [](closeCount >= 1 =>
            /\ ListenerGone
            /\ qClosed
            /\ closing
            /\ futState \in {"cancelled", "finished"})
    /\ (cpc # "idle") ~> (cpc = "idle")
    /\ (closeCount >= 1) ~> DrainGone

\* close() has returned with the request still on the queue and the drain
\* routine not yet ended
C1_Witness ==
    /\ closeCount >= 1
    /\ pendingAtClose
    /\ queue # <<>>
    /\ ~DrainGone

\* C2 as claimed: a live task whose cancellation was requested while the
\* Monitor is running ends (cancelled or finished), whatever was requested
\* before it, unless the Monitor is closed meanwhile.
C2_Claim ==
    \A t \in UserTasks :
        (Requested(t) /\ ~qClosed) ~> (TaskDone(t) \/ qClosed)


\* a step in which the session answered a line
Answered == lpc = "read" /\ resp'.out # "none"

\* C3 as claimed: a failure while a line is handled is rendered as
\* `Bad command.`, after which the session goes on and the listener thread
\* stays alive.
C3_Claim ==
    [][(lpc = "top" /\ resp.out = "bad") => lpc' # "crashed"]_vars

\* the lines that C4 says end the session
QuitLines == {Eof, Nl, W_quit \o Nl, W_exit \o Nl}

\* C4 as claimed: a blank line, or a line whose token is quit or exit, ends
\* the session with the farewell and leaves the Monitor as it was, the
\* listener going back to accepting.
C4_Claim ==
    [][(Answered /\ resp'.line \in QuitLines) =>
            /\ resp'.out = "farewell"
            /\ lpc' = "check"
            /\ UNCHANGED <<closing, qClosed, queue, dpc>>]_vars

\* the line names, for where or cancel, an identifier no task has
LookupOfAbsent(l) ==
    /\ Dispatch(l) \in {"where", "cancel"}
    /\ ArgOk(l)
    /\ ArgId(l) \notin all_tasks

\* C5 as claimed: where <id> and cancel <id> for an identifier that is not
\* in the registry both answer "not found", raise nothing and put nothing on
\* the queue.
C5_Claim ==
    [][(Answered /\ LookupOfAbsent(resp'.line)) =>
            /\ resp'.out = "no_task"
            /\ lpc' = "top"
            /\ UNCHANGED queueVars]_vars

\* C5 amended: for an identifier that is not in the registry, where <id>
\* answers `No task <id>` and cancel <id> writes nothing at all; neither
\* raises, the session goes on, and nothing is put on the queue.
C5_Amended ==
    [][(Answered /\ LookupOfAbsent(resp'.line)) =>
            /\ resp'.out = IF Dispatch(resp'.line) = "where"
                           THEN "no_task" ELSE "nothing"
            /\ lpc' = "top"
            /\ UNCHANGED queueVars]_vars

\* the session has answered a cancel of an identifier no task has
C5_Witness ==
    /\ resp.line = ReqLine(W_cancel, AbsentId)
    /\ resp.out = "nothing"
    /\ all_tasks # {}

\* C6 as claimed: no task is effectively cancelled more than once through
\* the Monitor.
C6_Claim == \A t \in AllTasks : cancelCount[t] <= 1

\* C7: a second close() changes nothing of the torn-down Monitor and does
\* not block: each of its steps leaves the queue, the flag, the future, the
\* listener and the drain routine as they were, its join finds the listener
\* thread ended, and afterwards the queue is closed, the flag set, the
\* listener thread ended and the future cancelled or finished.
C7_DoubleClose ==
    /\ [][(closeCount >= 1 /\ cpc' # cpc) =>
            UNCHANGED <<qClosed, closing, futState, cancelPending, lpc, dpc,
                        queue>>]_vars
    /\ []((closeCount >= 1 /\ cpc = "c96") => ListenerGone)
    /\ [](closeCount >= 1 =>
            /\ qClosed
            /\ closing
            /\ ListenerGone
            /\ futState \in {"cancelled", "finished"})

\* a second close() has returned
C7_Witness == closeCount >= 2 /\ cpc = "idle"

IsAscending(rows) == \A i, j \in 1..Len(rows) : i < j => rows[i] < rows[j]

\* C9: the rows ps writes are in ascending order of identifier, one row per
\* task of the loop's task set at the time of the call.
C9_PsRows ==
    [][(Answered /\ resp'.out = "ps") =>
            /\ IsAscending(resp'.rows)
            /\ {resp'.rows[i] : i \in 1..Len(resp'.rows)} = all_tasks
            /\ Len(resp'.rows) = Cardinality(all_tasks)]_vars

\* ps has listed the drain routine and every user task
C9_Witness == resp.out = "ps" /\ Len(resp.rows) = Cardinality(AllTasks)

\* the requests not yet taken, by the history
NotTaken == SubSeq(submitted, ntaken + 1, Len(submitted))

\* C10 as claimed: every request is taken once, in the order of submission;
\* request k+1 is not taken before the task of request k is done; and the
\* only cancel-and-await cycle in progress is the one of the request taken
\* last.
C10_Claim ==
    /\ [](queue = NotTaken)
    /\ [][(ntaken' = ntaken + 1 /\ ntaken >= 1) =>
            TaskDone(submitted[ntaken])]_vars
    /\ [](dpc = "await" => (ntaken >= 1 /\ awaiting = submitted[ntaken]))

\* Apart from requests naming the drain routine's own task the order of C10
\* holds: such a request is followed by the next one while that task is
\* still running, every other request only by the next once its task is done.
OrderExceptSelf ==
    /\ [](queue = NotTaken)
    /\ [][(ntaken' = ntaken + 1 /\ ntaken >= 1) =>
            (submitted[ntaken] = DrainId \/ TaskDone(submitted[ntaken]))]_vars
    /\ [](dpc = "await" => (ntaken >= 1 /\ awaiting = submitted[ntaken]))


\* C11 as claimed: whatever the outcome of the task of a request (cancelled,
\* finished, failed, or already done when the request was taken), the drain
\* routine goes on with the next get(); it ends only at teardown, that is
\* once close() has closed the queue.
C11_Claim ==
    /\ [][(ntaken' = ntaken + 1 \/ (dpc = "await" /\ dpc' # "await")) =>
            dpc' \in {"step", "await"}]_vars
    /\ [](DrainGone => qClosed)

\* a step of the listener thread
ListenerStep == listenerVars' # listenerVars

\* a step of the thread that constructs and closes the Monitor
CallerStep == ctor' # ctor \/ cpc' # cpc

\* a step in which cancel() was called on a task with effect
CancelCalled == cancelCount' # cancelCount

\* the drain routine takes a request (lines 101-103)
TakeStep == ntaken' = ntaken + 1 /\ dpc \in {"ready", "step", "get_wait"}

\* the lines ps, where and help answer
ReadOnlyOut == {"ps", "where", "no_task", "help"}

CancelOfKnown(l) ==
    /\ Dispatch(l) = "cancel"
    /\ ArgOk(l)
    /\ task_by_id(ArgId(l)) # NoTask

\* C13: a cancel of a known task handled when the queue has been closed is
\* acknowledged and then fails: put() raises, the failure is written as
\* `Bad command.`, nothing is added to the queue, and the session is back at
\* the top of its loop with its connection.
C13_ClosedQueue ==
    [][(Answered /\ CancelOfKnown(resp'.line) /\ qClosed) =>
            /\ resp'.out = "cancelling_bad"
            /\ UNCHANGED queueVars
            /\ lpc' = "top"
            /\ conn' = conn]_vars

\* close() has closed the queue and not yet set the flag; the session has
\* just answered a cancel of a live task with the failure
C13_Witness ==
    /\ qClosed
    /\ ~closing
    /\ lpc = "top"
    /\ resp.out = "cancelling_bad"
    /\ CancelOfKnown(resp.line)
    /\ ArgId(resp.line) \in UserTasks
    /\ tstate[ArgId(resp.line)] = "pending"

\* a session handler is running
SessionActive == lpc \in {"top", "read"}

\* C14: there is one client connection at most, and it is open exactly
\* while its session handler runs; a connection is accepted only by the
\* accept loop, when no session handler runs and the connection of the
\* session before has been closed.
C14_Serialized ==
    /\ [](conn # "none" <=> SessionActive)
    /\ [](lpc \in {"check", "accept"} => conn = "none")
    /\ [][(conn = "none" /\ conn' # "none") =>
            (lpc = "accept" /\ lpc' = "top")]_vars
    /\ [][(SessionActive /\ ~SessionActive') => conn' = "none"]_vars

\* a session has just been accepted after an earlier one, which had put a
\* request on the queue, ran to its end
C14_Witness ==
    /\ lpc = "top"
    /\ conn = "ok"
    /\ resp = NoResp
    /\ submitted # <<>>

\* C15: whenever close() has returned, the flag is set, the queue is
\* closed, no session is active, no client connection is open and the
\* listener thread has ended; close() never returns in a state where the
\* listener thread is still alive, in particular not while a session is
\* blocked reading.
C15_CloseBlocks ==
    /\ [](closeCount >= 1 =>
            /\ closing
            /\ qClosed
            /\ ~SessionActive
            /\ conn = "none"
            /\ ListenerGone)
    /\ [][closeCount' # closeCount => (ListenerGone /\ ListenerGone')]_vars
    /\ [][lpc = "read" => closeCount' = closeCount]_vars

\* close() has returned after the listener, which had served a session that
\* put a request on the queue, saw the flag and left its accept loop
C15_Witness ==
    /\ closeCount >= 1
    /\ lpc = "exited"
    /\ submitted # <<>>

\* C16: the flag is clear until a close() reaches line 95; the only step
\* that changes it is that line, which sets it; once set it stays set.
C16_FlagMonotone ==
    /\ [](closing => (cpc = "c96" \/ closeCount >= 1))
    /\ [][closing' # closing =>
            (cpc = "c95" /\ cpc' = "c96" /\ closing')]_vars
    /\ [][closing => closing']_vars

\* close() has run MaxClose times and the flag is still set, the listener
\* and the drain routine having ended
C16_Witness ==
    /\ closing
    /\ closeCount = MaxClose
    /\ ListenerGone
    /\ DrainGone

\* C18 as claimed: whenever a session handles a cancel of a known task the
\* queue exists, and such a cancel handled while the queue is not closed is
\* enqueued.
C18_Claim ==
    /\ [][(Answered /\ CancelOfKnown(resp'.line)) => qExists]_vars
    /\ [][(Answered /\ CancelOfKnown(resp'.line) /\ ~qClosed) =>
            /\ resp'.out = "cancelling"
            /\ queue' = Append(queue, ArgId(resp'.line))]_vars

\* the listening socket is open: the thread is inside `with sock:`
ListenSocketOpen == lpc \in {"check", "accept", "top", "read"}

\* C19: once the flag is set, a session at the top of its loop ends
\* without reading again, so that an active session handles one more line
\* at most (the one its pending read returns); the accept loop, reached
\* again, exits without accepting; and, the threads being scheduled and a
\* pending read returning, the listener thread ends and the listening
\* socket is released.
C19_Shutdown ==
    /\ [][(closing /\ lpc = "top") => lpc' \in {"top", "check"}]_vars
    /\ [][(closing /\ lpc = "read") => lpc' # "accept"]_vars
    /\ [][(closing /\ lpc = "check") => lpc' \in {"check", "exited"}]_vars
    /\ (closing /\ SessionActive) ~> (ListenerGone /\ ~ListenSocketOpen)

\* close() waits in its join, the flag set, while the session, which has
\* just answered a line, is back at the top of its loop
C19_Witness ==
    /\ closing
    /\ cpc = "c96"
    /\ lpc = "top"
    /\ conn = "ok"
    /\ resp.out = "cancelling_bad"

(***************************************************************************)
(* Dispatch on its own: every line made of an optional leading blank, a     *)
(* word and a tail is dispatched once.                                      *)
(***************************************************************************)
DispatchWords ==
    CommandNames \cup
    {<<>>, W_q, W_p, W_w, W_h,
     <<"q", "u", "e", "r", "y">>, <<"p", "w", "d">>, <<"e", "x">>,
     <<"e", "x", "i", "t", "s">>, <<"c", "a", "n">>,
     <<"c", "a", "n", "c", "e", "l", "s">>, <<"s", "i", "g">>,
     <<"w", "h", "o">>, <<"h", "i">>, <<"f", "o", "o">>, <<"P", "S">>}

DispatchTails ==
    {<<>>, Nl, <<" ", "1", "\n">>, <<" ", "1", " ", "2", "\n">>}

DispatchLines ==
    {pre \o w \o tl : pre \in {<<>>, <<" ">>}, w \in DispatchWords,
                      tl \in DispatchTails}

DispatchInit ==
    /\ MonitorInit
    /\ dline \in DispatchLines
    /\ WalkIdle

\* lines 145-171 choose the branch for the line read
DispatchLine ==
    /\ dbranch = "none"
    /\ dbranch' = Dispatch(dline)
    /\ UNCHANGED <<ctor, listenerVars, closing, qExists, qClosed, queueVars,
                   futState, cancelPending, drainVars, tstate, cancelCount,
                   closeVars, dline, walkVars>>

SpecDispatch ==
    /\ DispatchInit
    /\ [][DispatchLine]_vars

\* C8 as claimed: the branch taken is the one a parser by first token gives:
\* the command whose name is the line's first token, Quit for a blank line,
\* Unknown for every other first token.
C8_Claim ==
    dbranch # "none" => dbranch = DispatchByFirstToken(dline)

\* C8 amended: dispatch is by prefix of the raw line.  End of input and a
\* line beginning with q are Quit, a line beginning with p is ps, with w is
\* where, with h is help, with exit, cancel or signal is that command, and
\* every other line (a blank line too) is Unknown.  So the branch is the
\* first-token parser's whenever the line begins, without leading
\* whitespace, with a command name as its first token.
C8_Amended ==
    dbranch # "none" =>
        /\ dbranch = "exit" <=>
              (dline = Eof \/ StartsWith(dline, W_q) \/ StartsWith(dline, W_exit))
        /\ dbranch = "ps" <=> StartsWith(dline, W_p)
        /\ dbranch = "where" <=> StartsWith(dline, W_w)
        /\ dbranch = "help" <=> StartsWith(dline, W_h)
        /\ dbranch = "cancel" <=> StartsWith(dline, W_cancel)
        /\ dbranch = "signal" <=> StartsWith(dline, W_signal)
        /\ dbranch \in {"exit", "ps", "where", "help", "cancel", "signal",
                        "unknown"}
        /\ (/\ Split(dline) # <<>>
            /\ Split(dline)[1] \in CommandNames
            /\ dline[1] \notin Ws)
              => dbranch = DispatchByFirstToken(dline)

\* a line whose first token is no command name was dispatched to ps
C8_Witness ==
    /\ dbranch = "ps"
    /\ dline = <<"p", "w", "d", "\n">>


(***************************************************************************)
(* The stack walk on its own: _get_stack (lines 22-39) and _format_stack    *)
(* (lines 42-60) on one chain of objects.  The chain starts at task._coro   *)
(* and goes on through cr_await / gi_yieldfrom.  An object of the chain is  *)
(* a coroutine (cr_frame, cr_await), a generator (gi_frame, gi_yieldfrom)   *)
(* or any other awaitable (a Future, an iterator: none of the four          *)
(* attributes).  A coroutine or generator suspended on a further object has *)
(* a frame; one that is finished has no frame and awaits nothing.           *)
(***************************************************************************)
\* objects after task._coro in the longest chain
MaxDepth == 3
\* distinct frames
MaxFrame == 2

\* cr_frame / gi_frame of a finished coroutine or generator: None
NoFrame == 0
Frames == 1..MaxFrame
FrameKinds == {"coroutine", "generator"}

Obj(kind, frame, truthy) == [kind |-> kind, frame |-> frame, truthy |-> truthy]

\* coroutines and generators suspended on the next object of the chain
Suspended == {Obj(k, f, TRUE) : k \in FrameKinds, f \in Frames}

\* what a chain ends with: a coroutine or generator that awaits nothing
\* (not started, or suspended on a bare yield: it has a frame; finished: it
\* has none), or an object of another type, which may be falsy
ChainEnds ==
    {Obj(k, f, TRUE) : k \in FrameKinds, f \in Frames \cup {NoFrame}}
    \cup {Obj("other", NoFrame, b) : b \in BOOLEAN}

RECURSIVE SuspendedSeqs(_)
SuspendedSeqs(n) ==
    IF n = 0 THEN {<<>>}
    ELSE LET shorter == SuspendedSeqs(n - 1) IN
         shorter \cup {Append(c, o) : c \in {x \in shorter : Len(x) = n - 1},
                                      o \in Suspended}

\* task._coro is a coroutine or a generator
Chains ==
    {c \o <<e>> : c \in SuspendedSeqs(MaxDepth), e \in ChainEnds}
    \ {<<e>> : e \in {Obj("other", NoFrame, b) : b \in BOOLEAN}}

\* hasattr(coro, 'cr_frame') or hasattr(coro, 'gi_frame')  (line 25)
HasFrameAttr(o) == o.kind \in FrameKinds

\* lines 25-28: f
FrameOf(o) == IF HasFrameAttr(o) THEN o.frame ELSE NoFrame

\* hasattr(coro, 'cr_await') or hasattr(coro, 'gi_yieldfrom')  (line 33)
HasAwaitAttr(o) == o.kind \in FrameKinds

\* lines 33-37: the next coro, as a position (0: None)
AwaitOf(chain, i) ==
    IF HasAwaitAttr(chain[i]) /\ i < Len(chain) THEN i + 1 ELSE 0

WalkInit ==
    /\ MonitorInit
    /\ dline = Eof
    /\ wchain \in Chains
    /\ wpos = 1
    /\ wframes = <<>>
    /\ wpc = "loop"
    /\ wout = "none"

monitorVars == <<ctor, listenerVars, closing, qExists, qClosed, queueVars,
                 futState, cancelPending, drainVars, tstate, cancelCount,
                 closeVars, dispatchVars>>

\* one turn of the loop as it would be with frames.insert(0, f)
WalkStepPrepend ==
    /\ wpc = "loop"
    /\ wpos # 0
    /\ wchain[wpos].truthy
    /\ wframes' = IF FrameOf(wchain[wpos]) # NoFrame
                  THEN <<FrameOf(wchain[wpos])>> \o wframes
                  ELSE wframes
    /\ wpos' = AwaitOf(wchain, wpos)
    /\ UNCHANGED <<wchain, wpc, wout, monitorVars>>

\* lines 24-37: one turn of `while coro:`
WalkStep ==
    /\ wpc = "loop"
    /\ wpos # 0
    /\ wchain[wpos].truthy
    /\ wframes' = IF FrameOf(wchain[wpos]) # NoFrame
                  THEN Append(wframes, FrameOf(wchain[wpos]))
                  ELSE wframes
    /\ wpos' = AwaitOf(wchain, wpos)
    /\ UNCHANGED <<wchain, wpc, wout, monitorVars>>

\* lines 24 and 38: coro is None or falsy, _get_stack returns frames
WalkReturn ==
    /\ wpc = "loop"
    /\ IF wpos = 0 THEN TRUE ELSE ~wchain[wpos].truthy
    /\ wpc' = "format"
    /\ UNCHANGED <<wchain, wpos, wframes, wout, monitorVars>>

\* lines 44-60: one entry per frame, `No stack for` when there is none
FormatStack ==
    /\ wpc = "format"
    /\ wout' = IF wframes = <<>>
               THEN [text |-> "No stack for", entries |-> <<>>]
               ELSE [text |-> "Stack for", entries |-> wframes]
    /\ wpc' = "done"
    /\ UNCHANGED <<wchain, wpos, wframes, monitorVars>>

WalkNext == WalkStep \/ WalkReturn \/ FormatStack

SpecWalker == WalkInit /\ [][WalkNext]_vars

\* the objects of a chain up to the first one that bears no frame
RECURSIVE FrameBearingPrefix(_)
FrameBearingPrefix(chain) ==
    IF chain = <<>> \/ Head(chain).kind \notin FrameKinds THEN <<>>
    ELSE <<Head(chain)>> \o FrameBearingPrefix(Tail(chain))

RECURSIVE NonNullFrames(_)
NonNullFrames(objs) ==
    IF objs = <<>> THEN <<>>
    ELSE IF Head(objs).frame # NoFrame
         THEN <<Head(objs).frame>> \o NonNullFrames(Tail(objs))
         ELSE NonNullFrames(Tail(objs))

\* C17: the walk ends on every chain (each turn moves further along the
\* chain, which is finite); it returns the non-null frames of the objects
\* from task._coro up to the first that bears no frame, in chain order;
\* and _format_stack renders `No stack for` exactly when there is no frame.
C17_Walker ==
    /\ [][(wpc = "loop" /\ wpos' # wpos) =>
            (wpos' = 0 \/ (wpos' = wpos + 1 /\ wpos' <= Len(wchain)))]_vars
    /\ [](wpc \in {"format", "done"} =>
            wframes = NonNullFrames(FrameBearingPrefix(wchain)))
    /\ [](wpc = "done" =>
            /\ wout.entries = wframes
            /\ wout.text = IF NonNullFrames(FrameBearingPrefix(wchain)) = <<>>
                           THEN "No stack for" ELSE "Stack for")

\* a walk over a chain of full depth that took two different frames and
\* ended at an object without frame
C17_Witness ==
    /\ wpc = "done"
    /\ Len(wchain) = MaxDepth + 1
    /\ wchain[Len(wchain)].kind = "other"
    /\ Len(wframes) = MaxDepth
    /\ \E i, j \in 1..Len(wframes) : wframes[i] # wframes[j]

====
